---- MODULE Spec2Model ----
(***************************************************************************)
(* A model of src/cave_explorer.py: the CaveExplorer node (its control     *)
(* loop main_loop, the frontier planner planner_to_frontiers, the          *)
(* callbacks map_callback and image_callback) together with the move_base  *)
(* action client it drives.                                                *)
(***************************************************************************)
EXTENDS Integers, Sequences, FiniteSets, TLC

(***************************************************************************)
(* NUMBERS.  Python floats are IEEE-754 doubles (53-bit significand,       *)
(* round to nearest, ties to even).  A double is modelled by the record    *)
(* [hi, num, den] that denotes hi * 2^53 + num/den, with num/den a reduced *)
(* fraction of small magnitude.  With hi = 0 the value is a small          *)
(* fraction, which the model keeps exactly (for integers and dyadic        *)
(* fractions this is what the double arithmetic does); with hi # 0 the     *)
(* value lies at or above 2^52, where doubles are spaced 1, 2, 4, ...      *)
(* apart, and every operation rounds to that spacing as the hardware does. *)
(* An operation whose exact result has no such representation has no       *)
(* value here (OutOfRange), so that TLC stops instead of computing with a  *)
(* wrong number.                                                           *)
(***************************************************************************)
OutOfRange == CHOOSE v \in {} : TRUE

Abs(n) == IF n < 0 THEN -n ELSE n

Sign(n) == IF n < 0 THEN -1 ELSE IF n = 0 THEN 0 ELSE 1

RECURSIVE Gcd(_, _)
Gcd(a, b) == IF b = 0 THEN a ELSE Gcd(b, a % b)

RECURSIVE Pow2(_)
Pow2(k) == IF k = 0 THEN 1 ELSE 2 * Pow2(k - 1)

RECURSIVE FloorLog2(_)
FloorLog2(h) == IF h <= 1 THEN 0 ELSE 1 + FloorLog2(h \div 2)

\* The double hi * 2^53 + n/d, the fraction reduced and its denominator positive.
Dbl(hi, n, d) ==
    LET s == IF d < 0 THEN -1 ELSE 1
        g == Gcd(Abs(n), Abs(d))
    IN  [hi |-> hi, num |-> (s * n) \div g, den |-> (s * d) \div g]

FromInt(n) == Dbl(0, n, 1)

\* p/q (q > 0) rounded to the nearest integer, a tie to the even one.
RoundHalfEven(p, q) ==
    LET n == p \div q
        r == p - n * q
    IN  IF 2 * r < q THEN n
        ELSE IF 2 * r > q THEN n + 1
        ELSE IF n % 2 = 0 THEN n ELSE n + 1

\* The spacing of the doubles around hi * 2^53 + f, for hi # 0 and f of the
\* sign given: 2^(e+1) in the binade [2^(53+e), 2^(54+e)), and half of that just
\* below a power of two.
Ulp(hi, fsign) ==
    LET H == Abs(hi)
        e == FloorLog2(H)
    IN  IF Sign(hi) * fsign < 0 /\ H = Pow2(e) THEN Pow2(e) ELSE Pow2(e + 1)

\* The double nearest to the exact value v (round to nearest, ties to even).
Round53(v) ==
    IF v.hi = 0 THEN v
    ELSE LET u == Ulp(v.hi, Sign(v.num))
         IN  Dbl(v.hi, u * RoundHalfEven(v.num, v.den * u), 1)

\* a + b and a - b of two doubles.
FAdd(a, b) == Round53(Dbl(a.hi + b.hi, a.num * b.den + b.num * a.den, a.den * b.den))

FSub(a, b) == Round53(Dbl(a.hi - b.hi, a.num * b.den - b.num * a.den, a.den * b.den))

\* a * b: exact product (ah*B + af)(bh*B + bf), B = 2^53, defined when it has no
\* B^2 term and its B term is an integer.
FMul(a, b) ==
    LET hn == a.hi * b.num * a.den + b.hi * a.num * b.den
        hd == b.den * a.den
    IN  IF a.hi * b.hi # 0 \/ hn % hd # 0 THEN OutOfRange
        ELSE Round53(Dbl(hn \div hd, a.num * b.num, a.den * b.den))

\* a / b for a small divisor b # 0, defined when the quotient of the B term is an
\* integer.
FDiv(a, b) ==
    IF b.hi # 0 \/ b.num = 0 THEN OutOfRange
    ELSE IF (a.hi * b.den) % Abs(b.num) # 0 THEN OutOfRange
    ELSE Round53(Dbl(Sign(b.num) * ((a.hi * b.den) \div Abs(b.num)),
                     a.num * b.den, a.den * b.num))

\* Python's int(a): truncation towards zero.
Trunc(a) ==
    IF a.hi # 0 THEN OutOfRange
    ELSE IF a.num >= 0 THEN a.num \div a.den ELSE -((-a.num) \div a.den)

\* a < b.
FLess(a, b) == a.hi < b.hi \/ (a.hi = b.hi /\ a.num * b.den < b.num * a.den)

(***************************************************************************)
(* THE OCCUPANCY GRID.  A snapshot (nav_msgs/OccupancyGrid) is the record  *)
(* [width, height, resolution, origin_x, origin_y, data]: data is the      *)
(* row-major cell array, -1 unknown, 0 free, 100 occupied.                 *)
(***************************************************************************)
Unknown == -1

Free == 0

\* The values a cell takes: unknown, free, occupied.
CellValues == {Unknown, Free, 100}

\* map_data[y, x] of the array reshaped to (height, width) at line 329.
map_data_at(data, width, x, y) == data[y * width + x + 1]

\* The (x, y) pairs in the order of "for y in range(height): for x in range(width)".
GridCells(width, height) ==
    [i \in 1..(width * height) |-> <<(i - 1) % width, (i - 1) \div width>>]

\* The offsets in the order of "for dx in [-1, 0, 1] for dy in [-1, 0, 1]" with
\* (dx != 0 or dy != 0).
Offsets == << <<-1, -1>>, <<-1, 0>>, <<-1, 1>>, <<0, -1>>, <<0, 1>>, <<1, -1>>, <<1, 0>>, <<1, 1>> >>

\* neighbours without the diagonal offsets.
orthogonal_neighbours(x, y, width, height) ==
    SelectSeq(<< <<x - 1, y>>, <<x, y - 1>>, <<x, y + 1>>, <<x + 1, y>> >>,
              LAMBDA c : 0 <= c[1] /\ c[1] < width /\ 0 <= c[2] /\ c[2] < height)

\* The list "neighbours" of lines 337 and 367-370: the offsets applied to (x, y),
\* those outside the grid dropped.
neighbours(x, y, width, height) ==
    SelectSeq([i \in 1..Len(Offsets) |-> <<x + Offsets[i][1], y + Offsets[i][2]>>],
              LAMBDA c : 0 <= c[1] /\ c[1] < width /\ 0 <= c[2] /\ c[2] < height)

\* The test of lines 336-338: the cell is free and any neighbour is unknown.
is_frontier(data, width, height, c) ==
    /\ map_data_at(data, width, c[1], c[2]) = Free
    /\ LET nb == neighbours(c[1], c[2], width, height)
       IN  \E i \in 1..Len(nb) : map_data_at(data, width, nb[i][1], nb[i][2]) = Unknown

\* The cells for which line 340 appends, in the order of the loops.
frontier_cells(data, width, height) ==
    SelectSeq(GridCells(width, height), LAMBDA c : is_frontier(data, width, height, c))

\* Line 339: wx, wy = x * resolution + origin_x, y * resolution + origin_y.
cell_to_world(c, resolution, origin_x, origin_y) ==
    << FAdd(FMul(FromInt(c[1]), resolution), origin_x),
       FAdd(FMul(FromInt(c[2]), resolution), origin_y) >>

\* The list "frontiers" after the loops of lines 334-340.
frontiers_of(data, width, height, resolution, origin_x, origin_y) ==
    LET cells == frontier_cells(data, width, height)
    IN  [i \in 1..Len(cells) |-> cell_to_world(cells[i], resolution, origin_x, origin_y)]

\* Line 345: (int((wx - origin_x) / resolution), int((wy - origin_y) / resolution)).
world_to_cell(w, resolution, origin_x, origin_y) ==
    << Trunc(FDiv(FSub(w[1], origin_x), resolution)),
       Trunc(FDiv(FSub(w[2], origin_y), resolution)) >>

\* The initial worklist "queue" of line 345.
queue_of(frontiers, resolution, origin_x, origin_y) ==
    [i \in 1..Len(frontiers) |-> world_to_cell(frontiers[i], resolution, origin_x, origin_y)]

(***************************************************************************)
(* GROUPING (lines 343-379).  The two nested while loops are run as a      *)
(* step function over the record of the loop variables                     *)
(*   [queue, visited, grouped_frontiers, to_visit, current_group, at]      *)
(* where "at" is the loop whose test comes next.  The field "groups" is a  *)
(* history of every current_group at the time its size is tested (the      *)
(* code keeps only the ones that pass).                                    *)
(***************************************************************************)
\* The literal of line 378.
GroupSizeLimit == 500

\* "e in s" for a Python list s.
InList(s, e) == \E i \in 1..Len(s) : s[i] = e

\* "s.remove(e)": s without the first occurrence of e (e is in s).
ListRemove(s, e) ==
    LET i == CHOOSE j \in 1..Len(s) : s[j] = e /\ \A k \in 1..(j - 1) : s[k] # e
    IN  SubSeq(s, 1, i - 1) \o SubSeq(s, i + 1, Len(s))

\* move_neighbours leaving the loop after the first neighbour it moves.
RECURSIVE move_first_neighbour(_, _, _, _)
move_first_neighbour(nb, i, queue, to_visit) ==
    IF i > Len(nb) THEN [queue |-> queue, to_visit |-> to_visit]
    ELSE IF InList(queue, nb[i])
         THEN [queue |-> ListRemove(queue, nb[i]), to_visit |-> Append(to_visit, nb[i])]
         ELSE move_first_neighbour(nb, i + 1, queue, to_visit)

\* Lines 372-375, "for neighbour in neighbours" from its i-th element on: a
\* neighbour found in queue is moved to the end of to_visit.
RECURSIVE move_neighbours(_, _, _, _)
move_neighbours(nb, i, queue, to_visit) ==
    IF i > Len(nb) THEN [queue |-> queue, to_visit |-> to_visit]
    ELSE IF InList(queue, nb[i])
         THEN move_neighbours(nb, i + 1, ListRemove(queue, nb[i]), Append(to_visit, nb[i]))
         ELSE move_neighbours(nb, i + 1, queue, to_visit)

\* keeps_group with the size limit itself accepted.
keeps_group_from_limit(current_group) == Len(current_group) >= GroupSizeLimit

\* Line 378: "if len(current_group) > 500".
keeps_group(current_group) == Len(current_group) > GroupSizeLimit

\* One pass through a loop test of line 348 or 358 and the body that follows it.
group_step(s, width, height) ==
    IF s.at = "while_queue" THEN
        IF s.queue = <<>> THEN [s EXCEPT !.at = "end"]
        ELSE LET current == Head(s.queue)
             IN  IF InList(s.visited, current)
                 THEN [s EXCEPT !.queue = Tail(s.queue)]
                 ELSE [s EXCEPT !.queue = Tail(s.queue),
                                !.current_group = <<>>,
                                !.to_visit = <<current>>,
                                !.at = "while_to_visit"]
    ELSE IF s.at = "while_to_visit" THEN
        IF s.to_visit = <<>>
        THEN [s EXCEPT !.grouped_frontiers =
                           IF keeps_group(s.current_group)
                           THEN Append(s.grouped_frontiers, s.current_group)
                           ELSE s.grouped_frontiers,
                       !.groups = Append(s.groups, s.current_group),
                       !.at = "while_queue"]
        ELSE LET frontier == Head(s.to_visit)
             IN  IF InList(s.visited, frontier)
                 THEN [s EXCEPT !.to_visit = Tail(s.to_visit)]
                 ELSE LET m == move_neighbours(
                                   neighbours(frontier[1], frontier[2], width, height),
                                   1, s.queue, Tail(s.to_visit))
                      IN  [s EXCEPT !.visited = Append(s.visited, frontier),
                                    !.current_group = Append(s.current_group, frontier),
                                    !.queue = m.queue,
                                    !.to_visit = m.to_visit]
    ELSE s

\* k passes of group_step from s, stopping at the end of the outer loop.  (The
\* passes are split in halves so that the evaluation stays shallow.)
RECURSIVE run_group_steps(_, _, _, _)
run_group_steps(s, k, width, height) ==
    IF k = 0 \/ s.at = "end" THEN s
    ELSE IF k = 1 THEN group_step(s, width, height)
    ELSE LET m == run_group_steps(s, k \div 2, width, height)
         IN  IF m.at = "end" THEN m
             ELSE run_group_steps(m, k - (k \div 2), width, height)

\* Lines 344-379 run to the end: every pass pops queue, pops to_visit or closes
\* a group, so 3 * len(queue) + 2 passes reach the end.
group_frontiers(queue, width, height) ==
    run_group_steps([queue |-> queue, visited |-> <<>>, grouped_frontiers |-> <<>>,
                     groups |-> <<>>, to_visit |-> <<>>, current_group |-> <<>>,
                     at |-> "while_queue"],
                    3 * Len(queue) + 2, width, height)

(***************************************************************************)
(* GOAL SELECTION (lines 382-421).                                         *)
(***************************************************************************)
\* sum([cell[k] for cell in group]) over the elements lo..hi of group.
RECURSIVE sum_coord(_, _, _, _)
sum_coord(group, k, lo, hi) ==
    IF lo > hi THEN 0
    ELSE IF lo = hi THEN group[lo][k]
    ELSE LET mid == (lo + hi) \div 2
         IN  sum_coord(group, k, lo, mid) + sum_coord(group, k, mid + 1, hi)

\* Lines 392-393 and 405-406: sum(...) / len(group), Python's true division.
centroid(group) ==
    << Dbl(0, sum_coord(group, 1, 1, Len(group)), Len(group)),
       Dbl(0, sum_coord(group, 2, 1, Len(group)), Len(group)) >>

\* Lines 396 and 407: centroid * resolution + origin.
centroid_to_world(c, resolution, origin_x, origin_y) ==
    << FAdd(FMul(c[1], resolution), origin_x), FAdd(FMul(c[2], resolution), origin_y) >>

\* Lines 383-385: robot_pose = Pose2D(), whose x and y are 0.0.
robot_pose_used == << FromInt(0), FromInt(0) >>

\* Line 399 without its final "** 0.5": (wx - robot_x) ** 2 + (wy - robot_y) ** 2.
\* The square root is increasing, so the comparison of line 401 is made on the
\* squares.
distance_squared(w, robot) ==
    LET dx == FSub(w[1], robot[1])
        dy == FSub(w[2], robot[2])
    IN  FAdd(FMul(dx, dx), FMul(dy, dy))

\* Lines 391-403, "for group in grouped_frontiers" from its i-th element on.
\* best is [closest_frontier_group, min_distance]; <<>> stands for None and for
\* float('inf').
RECURSIVE closest_from(_, _, _, _, _, _)
closest_from(grouped_frontiers, i, best, resolution, origin_x, origin_y) ==
    IF i > Len(grouped_frontiers) THEN best
    ELSE LET group == grouped_frontiers[i]
             w == centroid_to_world(centroid(group), resolution, origin_x, origin_y)
             distance == distance_squared(w, robot_pose_used)
         IN  IF best.min_distance = <<>> \/ FLess(distance, best.min_distance[1])
             THEN closest_from(grouped_frontiers, i + 1,
                               [closest_frontier_group |-> group,
                                min_distance |-> <<distance>>],
                               resolution, origin_x, origin_y)
             ELSE closest_from(grouped_frontiers, i + 1, best,
                               resolution, origin_x, origin_y)

\* Lines 387-403: the group selected, <<>> for None.
closest_frontier_group_of(grouped_frontiers, resolution, origin_x, origin_y) ==
    closest_from(grouped_frontiers, 1,
                 [closest_frontier_group |-> <<>>, min_distance |-> <<>>],
                 resolution, origin_x, origin_y).closest_frontier_group

(***************************************************************************)
(* The computation of planner_to_frontiers from its local copies of the    *)
(* snapshot, lines 330-426, as the record of its local variables and of    *)
(* how it ends:                                                            *)
(*   "ValueError"  line 341, max() of the empty list frontiers;            *)
(*   "TypeError"   line 405, iteration over closest_frontier_group = None; *)
(*   "send_goal"   line 421, with the goal position (wx, wy);              *)
(*   "finished"    line 425.                                               *)
(***************************************************************************)
no_goal == <<>>

plan(width, height, resolution, origin_x, origin_y, data) ==
    LET cells == frontier_cells(data, width, height)
        frontiers == [i \in 1..Len(cells) |->
                         cell_to_world(cells[i], resolution, origin_x, origin_y)]
        none == [outcome |-> "ValueError", frontier_cells |-> cells,
                 frontiers |-> frontiers, queue |-> <<>>, groups |-> <<>>,
                 grouped_frontiers |-> <<>>, closest_frontier_group |-> <<>>,
                 goal |-> no_goal]
    IN  IF frontiers = <<>> THEN none
        ELSE LET queue == queue_of(frontiers, resolution, origin_x, origin_y)
                 g == group_frontiers(queue, width, height)
                 closest == closest_frontier_group_of(g.grouped_frontiers,
                                                      resolution, origin_x, origin_y)
                 grouped == [none EXCEPT !.queue = queue, !.groups = g.groups,
                                         !.grouped_frontiers = g.grouped_frontiers,
                                         !.closest_frontier_group = closest]
             IN  IF frontiers = <<>> THEN [grouped EXCEPT !.outcome = "finished"]
                 ELSE IF closest = <<>> THEN [grouped EXCEPT !.outcome = "TypeError"]
                 ELSE [grouped EXCEPT
                          !.outcome = "send_goal",
                          !.goal = centroid_to_world(centroid(closest),
                                                     resolution, origin_x, origin_y)]

(***************************************************************************)
(* BOUNDS AND INPUTS.                                                      *)
(***************************************************************************)
\* Goals sent to move_base in one run.
MaxGoals == 2

\* Snapshots that map_callback installs in one run.
MaxMapUpdates == 2

\* Cells of the grids that are enumerated exhaustively.
MaxCells == 6

\* Angles are counted in steps of pi / AngleSteps, so that math.pi and
\* 2 * math.pi, which the doubles hold exactly as each other's double and half,
\* are whole numbers of steps.
AngleSteps == 60

(***************************************************************************)
(* HEADINGS (lines 25-35).                                                 *)
(***************************************************************************)
\* 2 * math.pi, in steps.
two_pi == 2 * AngleSteps

\* Lines 27-28: "while angle < 0.0: angle = angle + 2 * math.pi".
RECURSIVE while_negative(_)
while_negative(angle) ==
    IF angle < 0 THEN while_negative(angle + two_pi) ELSE angle

\* Lines 30-31: "while angle > 2 * math.pi: angle = angle - 2 * math.pi".
RECURSIVE while_above_two_pi(_)
while_above_two_pi(angle) ==
    IF angle > two_pi THEN while_above_two_pi(angle - two_pi) ELSE angle

\* Lines 25-33.
wrap_angle(angle) == while_above_two_pi(while_negative(angle))

\* The cells of a message (OccupancyGrid.data, row-major) are kept as runs
\* <<value, count>> of equal neighbouring cells; np.array(...) of line 329
\* unpacks them.
RECURSIVE pack(_, _)
pack(cells, i) ==
    IF i > Len(cells) THEN <<>>
    ELSE LET rest == pack(cells, i + 1)
         IN  IF rest # <<>> /\ rest[1][1] = cells[i]
             THEN <<<<cells[i], rest[1][2] + 1>>>> \o Tail(rest)
             ELSE <<<<cells[i], 1>>>> \o rest

RECURSIVE data_len(_)
data_len(runs) == IF runs = <<>> THEN 0 ELSE runs[1][2] + data_len(Tail(runs))

RECURSIVE run_of(_, _)
run_of(runs, i) == IF i <= runs[1][2] THEN runs[1][1] ELSE run_of(Tail(runs), i - runs[1][2])

unpack(runs) == [i \in 1..data_len(runs) |-> run_of(runs, i)]

Snapshot(width, height, resolution, origin_x, origin_y, data) ==
    [width |-> width, height |-> height, resolution |-> resolution,
     origin_x |-> origin_x, origin_y |-> origin_y, data |-> data]

\* A corridor: row 0 holds a free cells, then, when b > 0, one occupied cell and b
\* more free cells; row 1 is unknown.  Each run of free cells is one group of
\* frontier cells.
Corridor(a, b, resolution, origin_x, origin_y) ==
    LET width == IF b = 0 THEN a ELSE a + 1 + b
    IN  Snapshot(width, 2, resolution, origin_x, origin_y,
                 IF b = 0 THEN << <<Free, a>>, <<Unknown, width>> >>
                 ELSE << <<Free, a>>, <<100, 1>>, <<Free, b>>, <<Unknown, width>> >>)

\* An n x n grid, unknown except for the free cells (lo..hi) x (lo..hi), with
\* lo >= 1 and hi <= n - 2.
Block(n, lo, hi) ==
    LET k == hi - lo + 1
    IN  [i \in 1..(2 * k + 1) |->
            IF i = 1 THEN <<Unknown, lo * n + lo>>
            ELSE IF i = 2 * k + 1 THEN <<Unknown, (n - 1 - hi) * (n + 1)>>
            ELSE IF i % 2 = 0 THEN <<Free, k>>
            ELSE <<Unknown, n - k>>]

\* The grid of the end-to-end scenario: 10 x 10, resolution 1.0, origin (0, 0),
\* unknown except for the free block (2, 2)-(6, 6).
Scenario == Snapshot(10, 10, FromInt(1), FromInt(0), FromInt(0), Block(10, 2, 6))

\* The cells on the edge of the free block of Scenario.
ScenarioPerimeter ==
    { c \in (2..6) \X (2..6) : c[1] \in {2, 6} \/ c[2] \in {2, 6} }

\* 2^53, the double above which odd integers are not representable.
TwoTo53 == Dbl(1, 0, 1)

\* [resolution, origin_x, origin_y] of the enumerated grids.
SmallMetas ==
    { <<FromInt(1), FromInt(0), FromInt(0)>>,
      <<FromInt(2), FromInt(-3), FromInt(1)>>,
      <<FromInt(1), TwoTo53, FromInt(0)>> }

\* The (width, height) with at most MaxCells cells.
SmallShapes == { s \in (1..MaxCells) \X (1..MaxCells) : s[1] * s[2] <= MaxCells }

\* Every grid of at most MaxCells cells, under every SmallMetas.
SmallMaps ==
    UNION { { Snapshot(s[1], s[2], m[1], m[2], m[3], pack(d, 1)) :
                  d \in [1..(s[1] * s[2]) -> CellValues], m \in SmallMetas } :
            s \in SmallShapes }

\* Snapshots with groups around the size limit of line 378, all of resolution
\* 2 and origin_y 1: one group at the limit and one above it; two groups above
\* it, at the same distance from the world origin, and at different distances.
LargeMaps ==
    { Corridor(GroupSizeLimit, GroupSizeLimit + 1, FromInt(2), FromInt(0), FromInt(1)),
      Corridor(GroupSizeLimit + 1, GroupSizeLimit + 1, FromInt(2),
               FromInt(-2 * (GroupSizeLimit + 1)), FromInt(1)),
      Corridor(GroupSizeLimit + 1, GroupSizeLimit + 1, FromInt(2),
               FromInt(-2 * (GroupSizeLimit + 100)), FromInt(1)) }

\* Snapshots on which the planner raises: no frontier cell, and one frontier cell.
FailingMaps ==
    { Snapshot(2, 2, FromInt(2), FromInt(0), FromInt(1),
               pack(<<Unknown, Unknown, Unknown, Unknown>>, 1)),
      Snapshot(2, 2, FromInt(2), FromInt(0), FromInt(1),
               pack(<<Free, Unknown, 100, 100>>, 1)) }

\* The snapshots the mapping node publishes in the runs of Spec.
Maps == LargeMaps \cup FailingMaps

\* Where the robot is when the node starts: at the world origin, or away from it.
RobotPoses == { <<FromInt(0), FromInt(0)>>, <<FromInt(300), FromInt(0)>> }

\* The order of the six reads of lines 324-329.
ReadOrder == <<"width", "height", "resolution", "origin_x", "origin_y", "data">>

\* What the six reads can leave in the planner's locals when map_callback
\* replaces the snapshot between them: each field from some snapshot, with
\* data that reshapes (line 329).
PlannerInputs ==
    { l \in { Snapshot(a.width, b.height, c.resolution, d.origin_x, e.origin_y, f.data) :
                  a \in Maps, b \in Maps, c \in Maps, d \in Maps, e \in Maps, f \in Maps } :
          data_len(l.data) = l.width * l.height }

\* Lines 330-426 on each planner input, computed once.
PlanTable ==
    [l \in PlannerInputs |->
        plan(l.width, l.height, l.resolution, l.origin_x, l.origin_y, unpack(l.data))]

plan_of(l) ==
    IF l \in PlannerInputs THEN PlanTable[l]
    ELSE plan(l.width, l.height, l.resolution, l.origin_x, l.origin_y, unpack(l.data))

(***************************************************************************)
(* THE NODE.  The main thread runs __init__ and main_loop; the subscriber   *)
(* callbacks run on other threads, between any two steps of the main       *)
(* thread; move_base moves the status of the goal it was last sent.        *)
(***************************************************************************)
VARIABLES
    grid_map_,               \* self.grid_map_: None, or <<snapshot>>
    artifact_found_,         \* self.artifact_found_
    planner_type_,           \* self.planner_type_
    reached_first_artifact_, \* self.reached_first_artifact_
    returned_home_,          \* self.returned_home_
    finised_exploring,       \* self.finised_exploring, the attribute main_loop reads
    finished_exploring,      \* self.finished_exploring, the attribute line 425 writes
    goal_counter_,           \* self.goal_counter_
    shutdown,                \* rospy.is_shutdown()
    pc,                      \* where the main thread is
    action_state,            \* main_loop's local: the status sampled at line 436
    ptf,                     \* planner_to_frontiers' locals of lines 324-329
    planned,                 \* the last pass of lines 330-426: its input, how it ended
    goal_status,             \* move_base_action_client_.get_state()
    goals_sent,              \* every send_goal so far, in order
    robot_pose,              \* where the robot actually is
    error,                   \* the exception that ended main_loop
    map_updates,             \* number of map_callback so far
    pose_2d                  \* what get_pose_2d returned last

vars ==
    <<grid_map_, artifact_found_, planner_type_, reached_first_artifact_,
      returned_home_, finised_exploring, finished_exploring, goal_counter_,
      shutdown, pc, action_state, ptf, planned, goal_status, goals_sent,
      robot_pose, error, map_updates, pose_2d>>

None == <<>>

\* No call of get_pose_2d so far.
NoPose == <<>>

NoLocals == Snapshot(0, 0, FromInt(0), FromInt(0), FromInt(0), <<>>)

NoPlan == [input |-> NoLocals, outcome |-> "none", goal |-> no_goal]

\* The main thread has left main_loop: by break, by shutdown, by an exception.
Ended == pc \in {"done", "exited", "crashed"}

InitNode ==
    /\ artifact_found_ = FALSE
    /\ planner_type_ = "ERROR"
    /\ reached_first_artifact_ = FALSE
    /\ returned_home_ = FALSE
    /\ finised_exploring = FALSE
    /\ finished_exploring = FALSE
    /\ goal_counter_ = 0
    /\ shutdown = FALSE
    /\ action_state = "LOST"
    /\ ptf = NoLocals
    /\ planned = NoPlan
    /\ goal_status = "LOST"
    /\ goals_sent = <<>>
    /\ error = "none"
    /\ pose_2d = NoPose

\* The node at line 113: everything constructed, no map received yet.
Init ==
    /\ InitNode
    /\ grid_map_ = None
    /\ pc = "wait_for_map"
    /\ robot_pose \in RobotPoses
    /\ map_updates = 0

(***************************************************************************)
(* The subscriber callbacks and the shutdown signal.                       *)
(***************************************************************************)
\* Lines 187-189: the snapshot is replaced by the message, whole.
map_callback(map_data) ==
    /\ ~Ended
    /\ map_updates < MaxMapUpdates
    /\ grid_map_' = <<map_data>>
    /\ map_updates' = map_updates + 1
    /\ UNCHANGED <<artifact_found_, planner_type_, reached_first_artifact_,
                   returned_home_, finised_exploring, finished_exploring,
                   goal_counter_, shutdown, pc, action_state, ptf, planned,
                   goal_status, goals_sent, robot_pose, error,
                   pose_2d>>

\* image_callback switching the planner itself when it sees an artifact.
image_callback_switching_planner(num_artifacts_found) ==
    /\ ~Ended
    /\ artifact_found_' = (num_artifacts_found > 0)
    /\ planner_type_' = IF num_artifacts_found > 0 THEN "GO_TO_FIRST_ARTIFACT"
                        ELSE planner_type_
    /\ UNCHANGED <<grid_map_, reached_first_artifact_,
                   returned_home_, finised_exploring, finished_exploring,
                   goal_counter_, shutdown, pc, action_state, ptf, planned,
                   goal_status, goals_sent, robot_pose, error, map_updates,
                   pose_2d>>

\* Lines 143-185: the flag says whether the image holds a detection.
image_callback(num_artifacts_found) ==
    /\ ~Ended
    /\ artifact_found_' = (num_artifacts_found > 0)
    /\ UNCHANGED <<grid_map_, planner_type_, reached_first_artifact_,
                   returned_home_, finised_exploring, finished_exploring,
                   goal_counter_, shutdown, pc, action_state, ptf, planned,
                   goal_status, goals_sent, robot_pose, error, map_updates,
                   pose_2d>>

\* rospy.is_shutdown() becomes true.
signal_shutdown ==
    /\ ~Ended
    /\ ~shutdown
    /\ shutdown' = TRUE
    /\ UNCHANGED <<grid_map_, artifact_found_, planner_type_,
                   reached_first_artifact_, returned_home_, finised_exploring,
                   finished_exploring, goal_counter_, pc, action_state, ptf,
                   planned, goal_status, goals_sent, robot_pose, error,
                   map_updates,
                   pose_2d>>

(***************************************************************************)
(* move_base, seen through the action client: a goal that was sent is      *)
(* PENDING, then ACTIVE, then SUCCEEDED, ABORTED or LOST; get_state() is    *)
(* LOST while no goal was sent.                                            *)
(***************************************************************************)
GoalOutcomes == {"SUCCEEDED", "ABORTED", "LOST"}

move_base_accepts ==
    /\ ~Ended
    /\ goal_status = "PENDING"
    /\ goal_status' = "ACTIVE"
    /\ UNCHANGED <<grid_map_, artifact_found_, planner_type_,
                   reached_first_artifact_, returned_home_, finised_exploring,
                   finished_exploring, goal_counter_, shutdown, pc,
                   action_state, ptf, planned, goals_sent, robot_pose, error,
                   map_updates,
                   pose_2d>>

\* The robot is at the target when the goal succeeded.
move_base_finishes(outcome) ==
    /\ ~Ended
    /\ goal_status = "ACTIVE"
    /\ goal_status' = outcome
    /\ robot_pose' = IF outcome = "SUCCEEDED"
                     THEN goals_sent[Len(goals_sent)].target ELSE robot_pose
    /\ UNCHANGED <<grid_map_, artifact_found_, planner_type_,
                   reached_first_artifact_, returned_home_, finised_exploring,
                   finished_exploring, goal_counter_, shutdown, pc,
                   action_state, ptf, planned, goals_sent, error, map_updates,
                   pose_2d>>

\* send_goal without the increment of goal_counter_.
send_goal_same_id(target) ==
    /\ goals_sent' = Append(goals_sent,
                            [goal_id |-> goal_counter_, target |-> target,
                             planner |-> planner_type_,
                             action_state |-> action_state,
                             status |-> goal_status,
                             robot_pose |-> robot_pose])
    /\ goal_counter_' = goal_counter_
    /\ goal_status' = "PENDING"

\* move_base_action_client_.send_goal with the id of goal_counter_ (lines
\* 212-217, 235-240, 258-263, 416-421): the client tracks the new goal.  The
\* record keeps what held when the goal was sent.
send_goal(target) ==
    /\ goals_sent' = Append(goals_sent,
                            [goal_id |-> goal_counter_, target |-> target,
                             planner |-> planner_type_,
                             action_state |-> action_state,
                             status |-> goal_status,
                             robot_pose |-> robot_pose])
    /\ goal_counter_' = goal_counter_ + 1
    /\ goal_status' = "PENDING"

(***************************************************************************)
(* The main thread.                                                        *)
(***************************************************************************)
\* wait_for_map without the test of line 114: main_loop starts at once.
wait_for_map_unguarded ==
    /\ pc = "wait_for_map"
    /\ pc' = "main_loop"
    /\ UNCHANGED <<grid_map_, artifact_found_, planner_type_,
                   reached_first_artifact_, returned_home_, finised_exploring,
                   finished_exploring, goal_counter_, shutdown, action_state,
                   ptf, planned, goal_status, goals_sent, robot_pose, error,
                   map_updates, pose_2d>>

\* Lines 113-117, then line 495: the constructor waits for the first snapshot,
\* or for shutdown, and main_loop starts.
wait_for_map ==
    /\ pc = "wait_for_map"
    /\ shutdown \/ grid_map_ # None
    /\ pc' = "main_loop"
    /\ UNCHANGED <<grid_map_, artifact_found_, planner_type_,
                   reached_first_artifact_, returned_home_, finised_exploring,
                   finished_exploring, goal_counter_, shutdown, action_state,
                   ptf, planned, goal_status, goals_sent, robot_pose, error,
                   map_updates,
                   pose_2d>>

\* Lines 431-464: the loop test, the status sample, the flags, the choice of
\* planner.  The choice reads finised_exploring, which nothing writes.
main_loop_select ==
    /\ pc = "main_loop"
    /\ goal_counter_ < MaxGoals
    /\ IF shutdown
       THEN /\ pc' = "exited"
            /\ UNCHANGED <<action_state, reached_first_artifact_,
                           returned_home_, planner_type_>>
       ELSE /\ action_state' = goal_status
            /\ reached_first_artifact_' =
                   (reached_first_artifact_
                       \/ (planner_type_ = "GO_TO_FIRST_ARTIFACT"
                              /\ action_state' = "SUCCEEDED"))
            /\ returned_home_' =
                   (returned_home_
                       \/ (planner_type_ = "RETURN_HOME"
                              /\ action_state' = "SUCCEEDED"))
            /\ IF ~finised_exploring
               THEN planner_type_' = "FRONTIER_EXPLORER" /\ pc' = "execute"
               ELSE IF ~returned_home_'
               THEN planner_type_' = "RETURN_HOME" /\ pc' = "execute"
               ELSE planner_type_' = planner_type_ /\ pc' = "done"
    /\ UNCHANGED <<grid_map_, artifact_found_, finised_exploring,
                   finished_exploring, goal_counter_, shutdown, ptf, planned,
                   goal_status, goals_sent, robot_pose, error, map_updates,
                   pose_2d>>

\* The guard of planner_move_forwards (line 196) put in the place of the guard
\* of the other planners.
only_when_lost(state) == state = "LOST"

\* Lines 223, 246 and 321: "if action_state != actionlib.GoalStatus.ACTIVE".
not_going_to_goal(state) == state # "ACTIVE"

\* Lines 472-484 with the guards of lines 223, 246 and 321: the planner of
\* planner_type_ is called with the status sampled at line 436.  The frontier
\* planner goes on to read the snapshot; the other planners send their goal.
execute_planner ==
    /\ pc = "execute"
    /\ IF ~not_going_to_goal(action_state)
       THEN /\ pc' = "main_loop"
            /\ UNCHANGED <<goal_counter_, goal_status, goals_sent>>
       ELSE CASE planner_type_ = "FRONTIER_EXPLORER" ->
                     /\ pc' = "read_width"
                     /\ UNCHANGED <<goal_counter_, goal_status, goals_sent>>
              [] planner_type_ = "GO_TO_FIRST_ARTIFACT" ->
                     /\ send_goal(<<FromInt(18), FromInt(25)>>)
                     /\ pc' = "main_loop"
              [] planner_type_ = "RETURN_HOME" ->
                     /\ send_goal(<<FromInt(0), FromInt(0)>>)
                     /\ pc' = "main_loop"
    /\ UNCHANGED <<grid_map_, artifact_found_, planner_type_,
                   reached_first_artifact_, returned_home_, finised_exploring,
                   finished_exploring, shutdown, action_state, ptf, planned,
                   robot_pose, error, map_updates,
                   pose_2d>>

\* Lines 324-329: six reads of self.grid_map_, one attribute each.  The reshape
\* of line 329 raises ValueError when data does not hold height * width cells.
read_snapshot(k) ==
    /\ pc = "read_" \o ReadOrder[k]
    /\ LET m == grid_map_[1]
       IN  ptf' = CASE k = 1 -> [ptf EXCEPT !.width = m.width]
                    [] k = 2 -> [ptf EXCEPT !.height = m.height]
                    [] k = 3 -> [ptf EXCEPT !.resolution = m.resolution]
                    [] k = 4 -> [ptf EXCEPT !.origin_x = m.origin_x]
                    [] k = 5 -> [ptf EXCEPT !.origin_y = m.origin_y]
                    [] k = 6 -> [ptf EXCEPT !.data = m.data]
    /\ IF k < Len(ReadOrder)
       THEN pc' = "read_" \o ReadOrder[k + 1] /\ error' = error
       ELSE IF data_len(ptf'.data) = ptf'.height * ptf'.width
       THEN pc' = "frontiers" /\ error' = error
       ELSE pc' = "crashed" /\ error' = "ValueError"
    /\ UNCHANGED <<grid_map_, artifact_found_, planner_type_,
                   reached_first_artifact_, returned_home_, finised_exploring,
                   finished_exploring, goal_counter_, shutdown, action_state,
                   planned, goal_status, goals_sent, robot_pose, map_updates,
                   pose_2d>>

\* What a pass would work on if it kept the input of the pass before it.
cached_input == IF planned.outcome # "none" THEN planned.input ELSE ptf

\* to_frontiers working on cached_input in the place of the locals just read.
to_frontiers_cached ==
    /\ pc = "frontiers"
    /\ planned' = [input |-> cached_input, outcome |-> plan_of(cached_input).outcome,
                    goal |-> plan_of(cached_input).goal]
    /\ ptf' = NoLocals
    /\ CASE planned'.outcome = "send_goal" ->
                /\ send_goal(planned'.goal)
                /\ pc' = "main_loop"
                /\ UNCHANGED <<finished_exploring, error>>
         [] planned'.outcome = "finished" ->
                /\ finished_exploring' = TRUE
                /\ pc' = "main_loop"
                /\ UNCHANGED <<goal_counter_, goal_status, goals_sent, error>>
         [] OTHER ->
                /\ error' = planned'.outcome
                /\ pc' = "crashed"
                /\ UNCHANGED <<goal_counter_, goal_status, goals_sent,
                               finished_exploring>>
    /\ UNCHANGED <<grid_map_, artifact_found_, planner_type_,
                   reached_first_artifact_, returned_home_, finised_exploring,
                   shutdown, action_state, robot_pose, map_updates,
                   pose_2d>>

\* Lines 330-426 and 484: detection, grouping, selection, and the goal, the
\* flag or the exception they end in.
to_frontiers ==
    /\ pc = "frontiers"
    /\ planned' = [input |-> ptf, outcome |-> plan_of(ptf).outcome,
                    goal |-> plan_of(ptf).goal]
    /\ ptf' = NoLocals
    /\ CASE planned'.outcome = "send_goal" ->
                /\ send_goal(planned'.goal)
                /\ pc' = "main_loop"
                /\ UNCHANGED <<finished_exploring, error>>
         [] planned'.outcome = "finished" ->
                /\ finished_exploring' = TRUE
                /\ pc' = "main_loop"
                /\ UNCHANGED <<goal_counter_, goal_status, goals_sent, error>>
         [] OTHER ->
                /\ error' = planned'.outcome
                /\ pc' = "crashed"
                /\ UNCHANGED <<goal_counter_, goal_status, goals_sent,
                               finished_exploring>>
    /\ UNCHANGED <<grid_map_, artifact_found_, planner_type_,
                   reached_first_artifact_, returned_home_, finised_exploring,
                   shutdown, action_state, robot_pose, map_updates,
                   pose_2d>>

\* Lines 120-140: the pose from the transform of base_link in map.  trans is
\* where the robot is; of rot the call uses math.acos(qw), a value from 0 to
\* math.pi, and the sign of qz.
get_pose_2d(acos_qw, qz) ==
    /\ pose_2d' = [x |-> robot_pose[1], y |-> robot_pose[2],
                   theta |-> IF qz >= 0 THEN wrap_angle(2 * acos_qw)
                             ELSE wrap_angle(-2 * acos_qw)]
    /\ UNCHANGED <<grid_map_, artifact_found_, planner_type_,
                   reached_first_artifact_, returned_home_, finised_exploring,
                   finished_exploring, goal_counter_, shutdown, pc,
                   action_state, ptf, planned, goal_status, goals_sent,
                   robot_pose, error, map_updates>>

\* The rotations about z that the transform can hold, as (math.acos(qw), sign
\* of qz): qw = cos(t / 2) and qz = sin(t / 2), so qz is 0 where acos(qw) is 0
\* or math.pi.
Rotations ==
    { r \in (0..AngleSteps) \X {-1, 0, 1} :
          (r[2] = 0) <=> (r[1] \in {0, AngleSteps}) }

Next ==
    \/ \E map_data \in Maps : map_callback(map_data)
    \/ \E n \in 0..1 : image_callback(n)
    \/ signal_shutdown
    \/ move_base_accepts
    \/ \E outcome \in GoalOutcomes : move_base_finishes(outcome)
    \/ wait_for_map
    \/ main_loop_select
    \/ execute_planner
    \/ \E k \in 1..Len(ReadOrder) : read_snapshot(k)
    \/ to_frontiers

Spec == Init /\ [][Next]_vars

(***************************************************************************)
(* The node under fair scheduling: the main thread, which sleeps 0.2 s     *)
(* between ticks (line 484) and blocks nowhere else, takes its next step   *)
(* whenever it has one; move_base moves on a goal it was sent.  The        *)
(* callbacks and the shutdown signal come or not.                          *)
(***************************************************************************)
main_thread ==
    \/ wait_for_map
    \/ main_loop_select
    \/ execute_planner
    \/ \E k \in 1..Len(ReadOrder) : read_snapshot(k)
    \/ to_frontiers

move_base ==
    \/ move_base_accepts
    \/ \E outcome \in GoalOutcomes : move_base_finishes(outcome)

SpecFair == Spec /\ WF_vars(main_thread) /\ WF_vars(move_base)

(***************************************************************************)
(* One tick of main_loop on every small grid and on the scenario grid: the *)
(* node has received the snapshot and enters main_loop, and nothing else   *)
(* happens meanwhile.                                                      *)
(***************************************************************************)
InitGrid ==
    /\ InitNode
    /\ \E map_data \in SmallMaps \cup {Scenario} : grid_map_ = <<map_data>>
    /\ pc = "main_loop"
    /\ robot_pose = <<FromInt(0), FromInt(0)>>
    /\ map_updates = 1

NextGrid ==
    \/ main_loop_select
    \/ execute_planner
    \/ \E k \in 1..Len(ReadOrder) : read_snapshot(k)
    \/ to_frontiers

SpecGrid == InitGrid /\ [][NextGrid]_vars

(***************************************************************************)
(* get_pose_2d on every rotation of Rotations, from the node as built.     *)
(***************************************************************************)
NextPose == \E r \in Rotations : get_pose_2d(r[1], r[2])

SpecPose == Init /\ [][NextPose]_vars

(***************************************************************************)
(* PROPERTIES.                                                             *)
(***************************************************************************)
\* C1: neither planner_to_frontiers nor planner_return_home calls send_goal
\* while the status of the current goal is ACTIVE, whatever move_base does
\* between the steps of the tick.
C1_NoSendWhileActive ==
    \A i \in 1..Len(goals_sent) :
        goals_sent[i].planner \in {"FRONTIER_EXPLORER", "RETURN_HOME"}
            => goals_sent[i].status # "ACTIVE"

\* C2: at most one goal is outstanding: send_goal is never called while the
\* goal sent before is still PENDING or ACTIVE.
C2_OneOutstandingGoal ==
    \A i \in 1..Len(goals_sent) : goals_sent[i].status \notin {"PENDING", "ACTIVE"}

\* What lines 330-426 computed on the input of the last pass.
last_pass == plan_of(planned.input)

\* A pass has run and its search found no valid group.
NoValidGroup == planned.outcome # "none" /\ last_pass.grouped_frontiers = <<>>

home == <<FromInt(0), FromInt(0)>>

\* C3: a tick whose search finds no valid group leaves main_loop running, the
\* next selection after it picks RETURN_HOME, and RETURN_HOME is picked in no
\* other case.
C3_ReturnHomeIffNoValidGroup ==
    /\ NoValidGroup => pc # "crashed"
    /\ NoValidGroup /\ pc = "execute" => planner_type_ = "RETURN_HOME"
    /\ planner_type_ = "RETURN_HOME" => NoValidGroup

\* The goal sent last went to the home pose and has succeeded.
HomeGoalSucceeded ==
    /\ goals_sent # <<>>
    /\ goals_sent[Len(goals_sent)].planner = "RETURN_HOME"
    /\ goals_sent[Len(goals_sent)].target = home
    /\ goal_status = "SUCCEEDED"

\* C4: main_loop is left, other than by shutdown, only after a goal at the home
\* pose was sent and has succeeded; and once its success is seen by a tick, the
\* loop is left and no further goal is sent.
C4_DoneIffHomeSucceeded ==
    /\ pc \in {"done", "crashed"} => HomeGoalSucceeded
    /\ returned_home_ => pc = "done" /\ HomeGoalSucceeded

\* C5: when no group passes the size filter, also when frontier cells exist, the
\* pass selects no group, sends no goal and ends by reporting that no frontier
\* is available (line 425), not by raising.
C5_NoValidGroupIsReported ==
    NoValidGroup =>
        /\ planned.outcome = "finished"
        /\ planned.goal = no_goal
        /\ last_pass.closest_frontier_group = <<>>

\* The cells of the input of the last pass, and those within one step of c.
input_cells == GridCells(planned.input.width, planned.input.height)

input_value(c) ==
    unpack(planned.input.data)[c[2] * planned.input.width + c[1] + 1]

Adjacent(c, d) == c # d /\ Abs(c[1] - d[1]) <= 1 /\ Abs(c[2] - d[2]) <= 1

\* c is free and some cell of the grid next to it is unknown.
FreeNextToUnknown(c) ==
    /\ input_value(c) = 0
    /\ \E i \in 1..Len(input_cells) :
           Adjacent(c, input_cells[i]) /\ input_value(input_cells[i]) = -1

\* C6: on a grid with no free cell next to an unknown cell, detection finds no
\* frontier cell and the tick completes without an exception.
C6_NoFrontierNoError ==
    (planned.outcome # "none"
        /\ \A i \in 1..Len(input_cells) : ~FreeNextToUnknown(input_cells[i]))
    => /\ last_pass.frontier_cells = <<>>
       /\ last_pass.frontiers = <<>>
       /\ planned.outcome \notin {"ValueError", "TypeError"}
       /\ pc # "crashed"

NoDuplicates(s) == \A i, j \in 1..Len(s) : i # j => s[i] # s[j]

\* c is a frontier cell only through a diagonal neighbour.
OnlyDiagonalUnknown(c) ==
    /\ FreeNextToUnknown(c)
    /\ \A i \in 1..Len(input_cells) :
           (Adjacent(c, input_cells[i]) /\ input_value(input_cells[i]) = -1)
               => (c[1] # input_cells[i][1] /\ c[2] # input_cells[i][2])

\* C7: on every grid, the cells that detection (lines 334-340) appends a point
\* for are, without duplicates, exactly the free cells of the grid with an
\* unknown cell among the up to 8 cells around them.
C7_DetectionExact ==
    planned.outcome # "none" =>
        /\ NoDuplicates(last_pass.frontier_cells)
        /\ \A i \in 1..Len(last_pass.frontier_cells) :
               InList(input_cells, last_pass.frontier_cells[i])
        /\ \A k \in 1..Len(input_cells) :
               InList(last_pass.frontier_cells, input_cells[k])
                   <=> FreeNextToUnknown(input_cells[k])
        /\ Len(last_pass.frontiers) = Len(last_pass.frontier_cells)

\* A pass on a grid with a frontier cell that only a diagonal neighbour makes
\* one, another frontier cell, and a free cell that is none.
C7_Witness ==
    /\ planned.outcome # "none"
    /\ Len(last_pass.frontier_cells) >= 2
    /\ \E i \in 1..Len(last_pass.frontier_cells) :
           OnlyDiagonalUnknown(last_pass.frontier_cells[i])
    /\ \E k \in 1..Len(input_cells) :
           input_value(input_cells[k]) = 0 /\ ~FreeNextToUnknown(input_cells[k])

\* C8: the groups that the loop of lines 348-379 builds, kept or dropped by the
\* size filter, partition the frontier cells: no cell is in two groups or twice
\* in one, every frontier cell is in a group, and every grouped cell is a
\* frontier cell.
C8_GroupsPartition ==
    planned.outcome \notin {"none", "ValueError"} =>
        /\ \A g \in 1..Len(last_pass.groups) : NoDuplicates(last_pass.groups[g])
        /\ \A g, h \in 1..Len(last_pass.groups) :
               g # h => \A i \in 1..Len(last_pass.groups[g]) :
                            ~InList(last_pass.groups[h], last_pass.groups[g][i])
        /\ \A i \in 1..Len(last_pass.frontier_cells) :
               \E g \in 1..Len(last_pass.groups) :
                   InList(last_pass.groups[g], last_pass.frontier_cells[i])
        /\ \A g \in 1..Len(last_pass.groups) :
               \A i \in 1..Len(last_pass.groups[g]) :
                   InList(last_pass.frontier_cells, last_pass.groups[g][i])

valid_centroid(i) ==
    centroid_to_world(centroid(last_pass.grouped_frontiers[i]),
                      planned.input.resolution, planned.input.origin_x,
                      planned.input.origin_y)

squared_distance_to(pose, i) ==
    LET w == valid_centroid(i)
        dx == FSub(w[1], pose[1])
        dy == FSub(w[2], pose[2])
    IN  FAdd(FMul(dx, dx), FMul(dy, dy))

\* C10: the goal of a pass with valid groups is the world centroid of the group
\* closest to where the robot actually is when the goal is sent, the first such
\* group when several are as close.
C10_ClosestToActualPose ==
    planned.outcome = "send_goal" =>
        LET sent == goals_sent[Len(goals_sent)]
            n == Len(last_pass.grouped_frontiers)
            closest ==
                CHOOSE i \in 1..n :
                    /\ \A j \in 1..n :
                           ~FLess(squared_distance_to(sent.robot_pose, j),
                                  squared_distance_to(sent.robot_pose, i))
                    /\ \A j \in 1..(i - 1) :
                           FLess(squared_distance_to(sent.robot_pose, i),
                                 squared_distance_to(sent.robot_pose, j))
        IN  sent.target = valid_centroid(closest)

fields_read ==
    IF pc \in {"frontiers", "crashed"} /\ ptf # NoLocals THEN Len(ReadOrder)
    ELSE IF \E k \in 1..Len(ReadOrder) : pc = "read_" \o ReadOrder[k]
    THEN (CHOOSE k \in 1..Len(ReadOrder) : pc = "read_" \o ReadOrder[k]) - 1
    ELSE 0

\* The first n locals of lines 324-329 are the fields of the snapshot m.
read_from(m, n) ==
    /\ n >= 1 => ptf.width = m.width
    /\ n >= 2 => ptf.height = m.height
    /\ n >= 3 => ptf.resolution = m.resolution
    /\ n >= 4 => ptf.origin_x = m.origin_x
    /\ n >= 5 => ptf.origin_y = m.origin_y
    /\ n >= 6 => ptf.data = m.data

\* C12: when map_callback installs a snapshot while planner_to_frontiers runs,
\* the pass still works on one snapshot: the width, height, resolution, origin
\* and data it has read are the fields of a single published snapshot, and so
\* is the input of lines 330-426.
C12_PassUsesOneSnapshot ==
    /\ \E m \in Maps : read_from(m, fields_read)
    /\ planned.outcome # "none" => planned.input \in Maps

\* The orders in which n cells can stand in a list.
Orders ==
    [n \in 0..(MaxCells - 1) |->
        { f \in [1..n -> 1..n] : \A i, j \in 1..n : i # j => f[i] # f[j] }]

\* The groups of lines 344-379 as a set of sets of cells, when the loop of line
\* 348 starts from queue.
partition_from(queue, width, height) ==
    LET groups == group_frontiers(queue, width, height).groups
    IN  { { groups[i][j] : j \in 1..Len(groups[i]) } : i \in 1..Len(groups) }

\* The cells of queue in the order f.
reordered(queue, f) == [i \in 1..Len(queue) |-> queue[f[i]]]

\* The last pass ran the grouping on a queue short enough to be reordered in
\* every way.
GroupedSmallQueue ==
    /\ planned.outcome # "none"
    /\ last_pass.queue # <<>>
    /\ Len(last_pass.queue) < MaxCells

\* C13: the grouping of lines 344-379 yields the same partition of the cells
\* whatever the order of the cells in the initial queue: every reordering of
\* the queue of line 345 gives the same set of groups.
C13_PartitionIgnoresQueueOrder ==
    GroupedSmallQueue =>
        LET queue == last_pass.queue
            width == planned.input.width
            height == planned.input.height
            partition == partition_from(queue, width, height)
        IN  \A f \in Orders[Len(queue)] :
                partition_from(reordered(queue, f), width, height) = partition

\* A pass with several groups, one of several cells, and a reordering of its
\* queue under which the loop builds the groups in another order.
C13_Witness ==
    /\ GroupedSmallQueue
    /\ Len(last_pass.groups) >= 2
    /\ \E i \in 1..Len(last_pass.groups) : Len(last_pass.groups[i]) >= 2
    /\ \E f \in Orders[Len(last_pass.queue)] :
           group_frontiers(reordered(last_pass.queue, f), planned.input.width,
                           planned.input.height).groups # last_pass.groups

\* C14: every goal sent, by any planner, carries the value goal_counter_ had
\* when it was sent, which is greater than the id of every goal sent before it;
\* goal_counter_ starts at 0 and counts the goals sent, so it never decreases
\* and moves only with a send.
C14_GoalIdsIncrease ==
    /\ goal_counter_ = Len(goals_sent)
    /\ \A i \in 1..Len(goals_sent) :
           /\ goals_sent[i].goal_id = i - 1
           /\ goals_sent[i].goal_id < goal_counter_
           /\ \A j \in 1..(i - 1) : goals_sent[j].goal_id < goals_sent[i].goal_id

\* Two goals were sent, with different ids.
C14_Witness ==
    /\ Len(goals_sent) >= 2
    /\ goals_sent[1].goal_id # goals_sent[2].goal_id
    /\ goal_counter_ >= 2

\* The cells of a list, as a set.
cells_of(s) == { s[i] : i \in 1..Len(s) }

\* C15: on the scenario grid, with no goal so far, one tick finds as frontier
\* cells the perimeter of the free block, puts them all in one group, sends
\* exactly one goal, at the centroid (4, 4) of the block, and the node goes on
\* exploring.
C15_ScenarioOneGoalAtCentroid ==
    (planned.outcome # "none" /\ planned.input = Scenario) =>
        /\ cells_of(last_pass.frontier_cells) = ScenarioPerimeter
        /\ Len(last_pass.groups) = 1
        /\ cells_of(last_pass.groups[1]) = ScenarioPerimeter
        /\ Len(goals_sent) = 1
        /\ goals_sent[1].target = <<FromInt(4), FromInt(4)>>
        /\ planner_type_ = "FRONTIER_EXPLORER"
        /\ ~finished_exploring
        /\ pc # "crashed"

\* C16: the heading that get_pose_2d reports, the result of wrap_angle, is at
\* least 0 and strictly below 2 * pi.
C16_HeadingBelowTwoPi ==
    pose_2d # NoPose => 0 <= pose_2d.theta /\ pose_2d.theta < two_pi

\* The cells of S linked to a cell of part by a chain of 8-adjacent cells of S.
RECURSIVE grow(_, _)
grow(part, S) ==
    LET more == part \cup { d \in S : \E c \in part : Adjacent(c, d) }
    IN  IF more = part THEN part ELSE grow(more, S)

\* The maximal 8-connected components of the set of cells S.
components(S) == { grow({c}, S) : c \in S }

\* C17: the groups built by lines 344-379 are the maximal 8-connected
\* components of the set of frontier cells: each group is one component (its
\* cells are chained by 8-adjacent frontier cells of the group, and no
\* 8-adjacent frontier cell is left out of it), and each component is a group.
C17_GroupsAreComponents ==
    planned.outcome \notin {"none", "ValueError"} =>
        { cells_of(last_pass.groups[g]) : g \in 1..Len(last_pass.groups) }
            = components(cells_of(last_pass.frontier_cells))

loop_state ==
    <<planner_type_, reached_first_artifact_, returned_home_, finised_exploring,
      finished_exploring, goal_counter_>>

\* C19: one writer per shared item.  A step of map_callback (it counts in
\* map_updates) changes grid_map_ and nothing else of the node; a step that
\* changes artifact_found_ changes nothing else of the node; neither touches
\* the planner type, the flags or goal_counter_, which change only in steps of
\* the main thread; and a step of the main thread writes neither grid_map_ nor
\* artifact_found_.
C19_OneWriterPerItem ==
    [][/\ map_updates' # map_updates
          => UNCHANGED <<artifact_found_, loop_state, pc, action_state, ptf,
                         planned, goal_status, goals_sent, error>>
       /\ grid_map_' # grid_map_ => map_updates' # map_updates
       /\ artifact_found_' # artifact_found_
          => UNCHANGED <<grid_map_, loop_state, pc, action_state, ptf, planned,
                         goal_status, goals_sent, error>>
       /\ loop_state' # loop_state => pc' # pc
       /\ pc' # pc => UNCHANGED <<grid_map_, artifact_found_>>]_vars

\* Every writer has written: map_callback has replaced a snapshot, the image
\* callback has raised its flag, the main thread has chosen a planner and sent
\* a goal.
C19_Witness ==
    /\ map_updates >= 2
    /\ artifact_found_
    /\ planner_type_ = "FRONTIER_EXPLORER"
    /\ goal_counter_ >= 1

\* The main thread is inside the body of main_loop (lines 436-484), or inside
\* planner_to_frontiers, or a pass of planner_to_frontiers has run.
LoopBodyEntered ==
    \/ pc \in {"execute", "frontiers"}
    \/ \E k \in 1..Len(ReadOrder) : pc = "read_" \o ReadOrder[k]
    \/ ptf # NoLocals
    \/ planned.outcome # "none"
    \/ goals_sent # <<>>

\* C20: the body of main_loop, and so planner_to_frontiers, runs only with a
\* snapshot in grid_map_, also when shutdown ends the startup wait before any
\* snapshot came; and grid_map_ is None exactly as long as map_callback has
\* not run.
C20_NoPassWithoutSnapshot ==
    /\ LoopBodyEntered => grid_map_ # None
    /\ (grid_map_ = None) <=> (map_updates = 0)

\* Shutdown ended the startup wait before any snapshot came: main_loop was
\* entered and left at its first test, without a pass.
C20_Witness ==
    /\ pc = "exited"
    /\ shutdown
    /\ grid_map_ = None
    /\ ~LoopBodyEntered

\* The snapshot in grid_map_ has no group that passes the size filter.
GridWithoutValidGroup ==
    /\ grid_map_ # None
    /\ plan_of(grid_map_[1]).grouped_frontiers = <<>>

\* The goal move_base is working on is a goal of planner_return_home.
HomeGoalActive ==
    /\ goals_sent # <<>>
    /\ goals_sent[Len(goals_sent)].planner = "RETURN_HOME"
    /\ goal_status \in {"PENDING", "ACTIVE"}

\* C21: with the main thread and move_base scheduled fairly and no shutdown,
\* if from some moment on the snapshot has no valid group, and every home goal
\* comes to SUCCEEDED, then main_loop comes to the break of line 464 and
\* returns.  (The runs cut short by the bound on the goals sent are left out.)
C21_EventuallyDone ==
    (/\ []~shutdown
     /\ [](goal_counter_ < MaxGoals)
     /\ <>[]GridWithoutValidGroup
     /\ [](HomeGoalActive => <>(goal_status = "SUCCEEDED")))
        => <>(pc = "done")

=============================================================================
